---- MODULE Spec2Model ----
(***************************************************************************)
(* A model of wenet/transducer/transducer.py: the Transducer constructor,  *)
(* the training loss composition (forward), the attention rescoring of     *)
(* beam-search hypotheses (transducer_attention_rescoring) and the greedy  *)
(* decoding loop (greedy_search).                                          *)
(*                                                                         *)
(* The encoder, predictor, joint network, CTC head, attention decoder, the *)
(* RNN-T loss kernel and the prefix beam search are collaborators whose    *)
(* code is not part of the file: their results are drawn from bounded      *)
(* sets.  Real-valued weights are kept as integer numbers of tenths and    *)
(* scores as integers, so sums and comparisons are exact.                  *)
(***************************************************************************)
EXTENDS Integers, Sequences, FiniteSets, TLC

VARIABLES
    self,              \* the fields __init__ assigns
    pc,                \* position of the running call
    err,               \* the exception that ended the call, "" if none
    ret,               \* the value the call returned
    calls,             \* how often each collaborator has been invoked in the call
    op,                \* the method called last
    args,              \* its arguments
    rnnt_text,         \* the label tensor handed to the RNN-T loss kernel
    fw,                \* forward: the label batch and the three losses
    rs,                \* transducer_attention_rescoring: its locals
    \* ---- greedy_search locals
    encoder_out_lens, t, hyps, prev_out_nblk, pred_out_step,
    per_frame_noblk, pred_input_step, state_m, state_out_m,
    \* ---- greedy_search history (not in the code: what the loop has done)
    glog

gvars == <<encoder_out_lens, t, hyps, prev_out_nblk, pred_out_step,
           per_frame_noblk, pred_input_step, state_m, state_out_m, glog>>

tvars == <<op, args, rnnt_text, fw, rs>>

vars == <<self, pc, err, ret, calls, tvars, gvars>>

\* ------------------------------------------------------------------ bounds
MaxFrames == 2         \* longest encoder output (frames) given to greedy_search
MaxBatch == 2          \* most label sequences in a batch given to forward
MaxLabelLen == 2       \* longest label sequence of a batch or hypothesis
MaxBeam == 2           \* most hypotheses the beam search returns
MaxSeed == 1           \* the networks' outputs are drawn from MaxSeed + 1 tables

\* ------------------------------------------------------- program constants
IGNORE_ID == -1
per_frame_max_noblk == 100

\* An absent tensor (Python's None, or a local not yet bound).
NoTensor == <<>>

\* ------------------------------------------------------------- constructor
\* Weights are tenths: 10 is 1.0.
One == 10

CtorArgs(vocabs, blanks, weights, ctcs, decoders) ==
    [vocab_size : vocabs, blank : blanks, w : weights,
     ctc : ctcs, attention_decoder : decoders, ignore_id : {IGNORE_ID}]

\* line 37: assert attention_weight + ctc_weight + transducer_weight == 1.0
CtorAccepts(a) ==
    a.w.attention_weight + a.w.ctc_weight + a.w.transducer_weight = One

\* lines 40-55
CtorFields(a) ==
    [blank |-> a.blank,
     sos |-> a.vocab_size - 1,
     eos |-> a.vocab_size - 1,
     vocab_size |-> a.vocab_size,
     ignore_id |-> a.ignore_id,
     transducer_weight |-> a.w.transducer_weight,
     ctc_weight |-> a.w.ctc_weight,
     attention_decoder_weight |-> One - a.w.transducer_weight - a.w.ctc_weight,
     ctc |-> a.ctc,
     attention_decoder |-> a.attention_decoder]

W(c, a, td) == [ctc_weight |-> c, attention_weight |-> a, transducer_weight |-> td]

NoCalls == [encoder |-> 0, predictor |-> 0, joint |-> 0, bs |-> 0,
            attention_decoder |-> 0, rnnt_loss |-> 0, ctc |-> 0]

Called(c, who) == [c EXCEPT ![who] = @ + 1]

\* -float('inf') (line 348), and a finite score.
NegInf == [fin |-> FALSE, v |-> 0]
Fin(x) == [fin |-> TRUE, v |-> x]

NoArgs == [batch_size |-> 0]
NoFw == [text |-> <<>>, loss_rnnt |-> 0, loss_att |-> NoTensor,
         loss_ctc |-> NoTensor]
NoRs == [beam |-> <<>>, hyps |-> <<>>, beam_score |-> <<>>, hyps_pad |-> <<>>,
         seed |-> 0, loss_td |-> <<>>, i |-> 1, best_score |-> NegInf,
         best_index |-> 1, attn |-> <<>>]

\* No call has been made yet.
Idle ==
    /\ pc = "idle" /\ err = "" /\ ret = NoTensor /\ calls = NoCalls
    /\ op = "" /\ args = NoArgs /\ rnnt_text = NoTensor
    /\ fw = NoFw /\ rs = NoRs

\* ----------------------------------------------------------------- tensors
RECURSIVE SeqSum(_)
SeqSum(s) == IF s = <<>> THEN 0 ELSE Head(s) + SeqSum(Tail(s))

Max(S) == CHOOSE x \in S : \A y \in S : y <= x

\* Sequences over S of length lo .. hi.
Seqs(S, lo, hi) == UNION {[1 .. n -> S] : n \in lo .. hi}

\* pad_sequence(rows, True, pad) (lines 294-297): every row filled up to the
\* longest with pad.
PadSequence(rows, pad) ==
    LET width == Max({0} \cup {Len(rows[i]) : i \in DOMAIN rows})
    IN  [i \in DOMAIN rows |->
            [j \in 1 .. width |-> IF j <= Len(rows[i]) THEN rows[i][j] ELSE pad]]

RemapPad_KeepsPad(tensor, ignore_id) == tensor

\* torch.where(rnnt_text == self.ignore_id, 0, rnnt_text) (lines 95-97, 320-322)
RemapPad(tensor, ignore_id) ==
    [i \in DOMAIN tensor |->
        [j \in DOMAIN tensor[i] |->
            IF tensor[i][j] = ignore_id THEN 0 ELSE tensor[i][j]]]

\* The labels of the vocabulary that stand for output symbols: not blank and
\* not sos/eos.
RealLabels == (0 .. self.vocab_size - 2) \ {self.blank}

\* ----------------------------------------------------------------- forward
\* The values a loss kernel can return: a scalar, or (CTC, attention) a
\* tensor still to be summed.
LossScalars == {0, 1, 3}
LossTensors == {<<1>>, <<2>>, <<1, 2>>}

\* line 110
RunsAtt == self.attention_decoder_weight # 0 /\ self.attention_decoder # "None"

\* line 116
RunsCtc == self.ctc_weight # 0 /\ self.ctc # "None"

\* lines 100-106 and 122-125: the total loss, in tenths.
ComposeLoss(loss_rnnt, loss_ctc, loss_att) ==
    LET l0 == One * loss_rnnt
        l1 == IF loss_ctc # NoTensor
              THEN l0 + self.ctc_weight * SeqSum(loss_ctc) ELSE l0
    IN  IF loss_att # NoTensor
        THEN l1 + self.attention_decoder_weight * SeqSum(loss_att) ELSE l1

\* lines 79-132
Forward(speech_batch, text, loss_rnnt, att, ctc) ==
    /\ pc = "idle"
    /\ op' = "forward"
    /\ args' = [batch_size |-> speech_batch]
    /\ rs' = NoRs
    /\ IF speech_batch # Len(text)
       THEN /\ pc' = "error" /\ err' = "AssertionError"
            /\ calls' = NoCalls /\ ret' = NoTensor
            /\ fw' = NoFw /\ rnnt_text' = NoTensor
       ELSE LET loss_att == IF RunsAtt THEN att ELSE NoTensor
                loss_ctc == IF RunsCtc THEN ctc ELSE NoTensor
                c1 == Called(Called(Called(Called(NoCalls, "encoder"),
                          "predictor"), "joint"), "rnnt_loss")
                c2 == IF RunsAtt THEN Called(c1, "attention_decoder") ELSE c1
            IN  /\ pc' = "done" /\ err' = ""
                /\ rnnt_text' = RemapPad(text, self.ignore_id)
                /\ fw' = [text |-> text, loss_rnnt |-> loss_rnnt,
                          loss_att |-> loss_att, loss_ctc |-> loss_ctc]
                /\ calls' = IF RunsCtc THEN Called(c2, "ctc") ELSE c2
                /\ ret' = [loss |-> ComposeLoss(loss_rnnt, loss_ctc, loss_att),
                           loss_att |-> loss_att,
                           loss_ctc |-> loss_ctc,
                           loss_rnnt |-> loss_rnnt]
    /\ UNCHANGED <<self, gvars>>

\* The padded label batches given to forward.
TextBatches ==
    {PadSequence(rows, self.ignore_id) :
        rows \in Seqs(Seqs(RealLabels, 1, MaxLabelLen), 1, MaxBatch)}

ForwardStart ==
    /\ pc = "idle"
    /\ \E text \in TextBatches, d \in {0, 1},
         loss_rnnt \in LossScalars, att \in LossTensors, ctc \in LossTensors :
          /\ ~RunsAtt => att = <<1>>
          /\ ~RunsCtc => ctc = <<1>>
          /\ Forward(Len(text) + d, text, loss_rnnt, att, ctc)

\* ------------------------------------------ transducer_attention_rescoring
\* decoder_out[i][j][w] after log_softmax (lines 338-342), i from 1, j from 0.
DecoderOut(seed, i, j, w) == -(((seed + 1) * (3 * i + 5 * j + 7 * w + 1)) % 5)

\* r_decoder_out[i][j][w] after log_softmax (lines 345-346).
RDecoderOut(seed, i, j, w) == -(((seed + 2) * (2 * i + 3 * j + 5 * w + 2)) % 5)

\* loss_td[i] (lines 324-329, reduction 'none').
TdLoss(seed, i) == ((seed + 1) * i) % 3

\* lines 351-354
RECURSIVE ForwardSum(_, _, _, _)
ForwardSum(seed, i, hyp, j) ==
    IF j >= Len(hyp) THEN 0
    ELSE DecoderOut(seed, i, j, hyp[j + 1]) + ForwardSum(seed, i, hyp, j + 1)

ForwardScore(seed, i, hyp) ==
    ForwardSum(seed, i, hyp, 0) + DecoderOut(seed, i, Len(hyp), self.eos)

\* lines 358-361
RECURSIVE ReverseSum(_, _, _, _)
ReverseSum(seed, i, hyp, j) ==
    IF j >= Len(hyp) THEN 0
    ELSE RDecoderOut(seed, i, Len(hyp) - j - 1, hyp[j + 1])
         + ReverseSum(seed, i, hyp, j + 1)

ReverseScore(seed, i, hyp) ==
    ReverseSum(seed, i, hyp, 0) + RDecoderOut(seed, i, Len(hyp), self.eos)

\* lines 357-362: the attention score, in tenths.
AttnScore(seed, i, hyp, reverse_weight) ==
    IF reverse_weight > 0
    THEN ForwardScore(seed, i, hyp) * (One - reverse_weight)
         + ReverseScore(seed, i, hyp) * reverse_weight
    ELSE One * ForwardScore(seed, i, hyp)

\* lines 364-366: the fused score, in hundredths.
Fuse(score, beam_score, td_s, a) ==
    score * a.attn_weight
    + One * (beam_score * a.ctc_weight)
    + One * (td_s * a.transducer_weight)

Better_OrEqual(score, best_score) == ~best_score.fin \/ score >= best_score.v

\* line 367
Better(score, best_score) == ~best_score.fin \/ score > best_score.v

\* getattr(self, name): the fields of lines 40-55 are all there is.
HasAttr(name) == name \in DOMAIN self

RescoreChecks_NoReverseCheck(a) ==
    IF a.batch_size # a.lengths_batch THEN "AssertionError"
    ELSE IF a.decoding_chunk_size = 0 THEN "AssertionError"
    ELSE IF a.batch_size # 1 THEN "AssertionError"
    ELSE ""

\* lines 269-277: the exception the precondition checks raise, "" if none.
RescoreChecks(a) ==
    IF a.batch_size # a.lengths_batch THEN "AssertionError"
    ELSE IF a.decoding_chunk_size = 0 THEN "AssertionError"
    ELSE IF a.reverse_weight > 0 /\ ~HasAttr("decoder") THEN "AttributeError"
    ELSE IF a.reverse_weight > 0 /\ self.decoder # "BiTransformerDecoder"
         THEN "AssertionError"
    ELSE IF a.batch_size # 1 THEN "AssertionError"
    ELSE ""

\* lines 269-277
RescoreCall(a) ==
    /\ pc = "idle"
    /\ op' = "transducer_attention_rescoring"
    /\ args' = a
    /\ ret' = NoTensor /\ calls' = NoCalls /\ rs' = NoRs
    /\ fw' = NoFw /\ rnnt_text' = NoTensor
    /\ err' = RescoreChecks(a)
    /\ pc' = IF RescoreChecks(a) # "" THEN "error" ELSE "rs_search"
    /\ UNCHANGED <<self, gvars>>

\* hyps = [s.hyp[1:] for s in beam] (line 290)
StripSos(beam) == [k \in DOMAIN beam |-> Tail(beam[k].hyp)]

\* lines 279-303: the beam search, its hypotheses stripped and padded
RescoreSearch(beam) ==
    /\ pc = "rs_search"
    /\ calls' = Called(calls, "bs")
    /\ IF Len(StripSos(beam)) # args.beam_size
       THEN /\ pc' = "error" /\ err' = "AssertionError"
            /\ rs' = [rs EXCEPT !.beam = beam]
       ELSE /\ pc' = "rs_score" /\ err' = ""
            /\ rs' = [rs EXCEPT
                        !.beam = beam,
                        !.hyps = StripSos(beam),
                        !.beam_score = [k \in DOMAIN beam |-> beam[k].score],
                        !.hyps_pad = PadSequence(StripSos(beam), self.ignore_id)]
    /\ UNCHANGED <<self, op, args, ret, fw, rnnt_text, gvars>>

\* lines 307-349: predictor, joint, RNN-T loss and attention decoder
RescoreNetworks(seed) ==
    /\ pc = "rs_score"
    /\ rnnt_text' = RemapPad(rs.hyps_pad, self.ignore_id)
    /\ IF self.attention_decoder = "None"
       THEN /\ pc' = "error" /\ err' = "TypeError"
            /\ calls' = Called(Called(Called(calls, "predictor"), "joint"),
                               "rnnt_loss")
            /\ rs' = [rs EXCEPT !.seed = seed]
       ELSE /\ pc' = "rs_loop" /\ err' = ""
            /\ calls' = Called(Called(Called(Called(calls, "predictor"),
                               "joint"), "rnnt_loss"), "attention_decoder")
            /\ rs' = [rs EXCEPT
                        !.seed = seed,
                        !.loss_td = [k \in DOMAIN rs.hyps |-> TdLoss(seed, k)],
                        !.i = 1,
                        !.best_score = NegInf,
                        !.best_index = 1]
    /\ UNCHANGED <<self, op, args, ret, fw, gvars>>

\* lines 350-369: one hypothesis of the loop
RescoreHyp ==
    /\ pc = "rs_loop"
    /\ rs.i <= Len(rs.hyps)
    /\ LET i == rs.i
           attn == AttnScore(rs.seed, i, rs.hyps[i], args.reverse_weight)
           td_s == -rs.loss_td[i]
           score == Fuse(attn, rs.beam_score[i], td_s, args)
           wins == Better(score, rs.best_score)
       IN  rs' = [rs EXCEPT
                    !.attn = Append(@, attn),
                    !.best_score = IF wins THEN Fin(score) ELSE @,
                    !.best_index = IF wins THEN i ELSE @,
                    !.i = i + 1]
    /\ UNCHANGED <<self, pc, err, op, args, ret, calls, fw, rnnt_text, gvars>>

\* line 371
RescoreReturn ==
    /\ pc = "rs_loop"
    /\ rs.i > Len(rs.hyps)
    /\ pc' = "done"
    /\ ret' = [hyp |-> rs.hyps[rs.best_index], score |-> rs.best_score]
    /\ UNCHANGED <<self, err, op, args, calls, fw, rnnt_text, rs, gvars>>

\* What the prefix beam search can return: hypotheses that start with the
\* sos sentinel and hold no blank, each with its score.
BeamScores == {-2, -1}
Beams ==
    Seqs([hyp : {<<self.sos>> \o h : h \in Seqs(RealLabels, 0, MaxLabelLen)},
          score : BeamScores], 1, MaxBeam)

\* The weights a caller passes to the rescoring, in tenths.
RescoreWeights ==
    {[attn_weight |-> 10, ctc_weight |-> 0, transducer_weight |-> 0],
     [attn_weight |-> 5, ctc_weight |-> 3, transducer_weight |-> 2],
     [attn_weight |-> 0, ctc_weight |-> 5, transducer_weight |-> 5]}

RescoreArgs ==
    {[batch_size |-> b, lengths_batch |-> lb, decoding_chunk_size |-> c,
      beam_size |-> k, reverse_weight |-> rw,
      attn_weight |-> w.attn_weight, ctc_weight |-> w.ctc_weight,
      transducer_weight |-> w.transducer_weight] :
        b \in {1, 2}, lb \in {1, 2}, c \in {-1, 0}, k \in 1 .. MaxBeam,
        rw \in {0, 5, 10}, w \in RescoreWeights}

RescoreStart == pc = "idle" /\ \E a \in RescoreArgs : RescoreCall(a)

RescoreSearchStep ==
    pc = "rs_search" /\ \E beam \in Beams : RescoreSearch(beam)

RescoreNetworksStep ==
    pc = "rs_score" /\ \E seed \in 0 .. MaxSeed : RescoreNetworks(seed)

\* ----------------------------------------------------------- greedy_search
NoLog == [iters |-> 0, advances |-> 0, it_pred |-> FALSE,
          it_out |-> -1, it_prev |-> -1, it_t |-> 0, it_noblk |-> 0,
          it_len |-> 0, here |-> 0, it_here |-> 0, followed |-> 0]

GreedyIdle ==
    /\ encoder_out_lens = 0 /\ t = 0 /\ hyps = <<>> /\ prev_out_nblk = TRUE
    /\ pred_out_step = NoTensor /\ per_frame_noblk = 0
    /\ pred_input_step = self.blank /\ state_m = <<>> /\ state_out_m = NoTensor
    /\ glog = NoLog

\* The labels the joint network can prefer over blank.
NonBlank == (0 .. self.vocab_size - 1) \ {self.blank}

\* The k-th smallest element of a finite set of integers.
RECURSIVE Nth(_, _)
Nth(S, k) ==
    LET m == CHOOSE x \in S : \A y \in S : x <= y
    IN  IF k = 1 THEN m ELSE Nth(S \ {m}, k - 1)

\* The arg-max of one joint evaluation: blank, or a label.  Which label is
\* preferred is fixed by the number of labels emitted so far, so that
\* hypotheses of several hundred labels stay enumerable; whether it is
\* blank is free at every evaluation.
JointArgmax == {self.blank, Nth(NonBlank, (Len(hyps) % Cardinality(NonBlank)) + 1)}

\* predictor.forward_step (lines 434-435): the output and the new recurrent
\* state are determined by the labels consumed so far.
ForwardStep(inp, st) == [out |-> Append(st, inp), state |-> Append(st, inp)]

IsNonBlank_ZeroIsBlank(joint_out_max) == joint_out_max # 0

\* line 442
IsNonBlank(joint_out_max) == joint_out_max # self.blank

FrameEnds_CapOffByOne(joint_out_max, noblk) ==
    joint_out_max = self.blank \/ noblk > per_frame_max_noblk

FrameEnds_NoCap(joint_out_max, noblk) == joint_out_max = self.blank

\* line 449
FrameEnds(joint_out_max, noblk) ==
    joint_out_max = self.blank \/ noblk >= per_frame_max_noblk

\* line 450
ClearsPrevOut(joint_out_max, noblk) == noblk >= per_frame_max_noblk

\* line 433
RunsPredictor(prev) == prev

\* lines 399-430
GreedyCall(batch, chunk, L) ==
    /\ pc = "idle"
    /\ op' = "greedy_search"
    /\ args' = [batch_size |-> batch, decoding_chunk_size |-> chunk]
    /\ ret' = NoTensor
    /\ UNCHANGED <<rnnt_text, fw, rs>>
    /\ t' = 0 /\ hyps' = <<>> /\ prev_out_nblk' = TRUE
    /\ pred_out_step' = NoTensor /\ per_frame_noblk' = 0
    /\ pred_input_step' = self.blank
    /\ state_m' = <<>> /\ state_out_m' = NoTensor
    /\ glog' = NoLog
    /\ IF batch # 1 \/ chunk = 0
       THEN /\ pc' = "error" /\ err' = "AssertionError"
            /\ calls' = NoCalls
            /\ encoder_out_lens' = 0
       ELSE /\ pc' = "greedy" /\ err' = ""
            /\ calls' = Called(NoCalls, "encoder")
            /\ encoder_out_lens' = L
    /\ UNCHANGED self

\* lines 431-455: one iteration of the loop
GreedyIter(joint_out_max) ==
    /\ pc = "greedy"
    /\ t < encoder_out_lens
    /\ joint_out_max \in JointArgmax
    /\ LET run   == RunsPredictor(prev_out_nblk)
           fs    == ForwardStep(pred_input_step, state_m)
           pout  == IF run THEN fs.out ELSE pred_out_step
           sout  == IF run THEN fs.state ELSE state_out_m
           nb    == IsNonBlank(joint_out_max)
           noblk == IF nb THEN per_frame_noblk + 1 ELSE per_frame_noblk
           prev1 == IF nb THEN TRUE ELSE prev_out_nblk
           adv   == FrameEnds(joint_out_max, noblk)
       IN  /\ pred_out_step' = pout
           /\ state_out_m' = sout
           /\ hyps' = IF nb THEN Append(hyps, joint_out_max) ELSE hyps
           /\ pred_input_step' = IF nb THEN joint_out_max ELSE pred_input_step
           /\ state_m' = IF nb THEN sout ELSE state_m
           /\ prev_out_nblk' = IF adv /\ ClearsPrevOut(joint_out_max, noblk)
                               THEN FALSE ELSE prev1
           /\ t' = IF adv THEN t + 1 ELSE t
           /\ per_frame_noblk' = IF adv THEN 0 ELSE noblk
           /\ calls' = Called(IF run THEN Called(calls, "predictor") ELSE calls,
                              "joint")
           /\ glog' = [iters |-> glog.iters + 1,
                       advances |-> glog.advances + (IF adv THEN 1 ELSE 0),
                       it_pred |-> run,
                       it_out |-> joint_out_max,
                       it_prev |-> glog.it_out,
                       it_t |-> t,
                       it_noblk |-> noblk,
                       it_len |-> Len(hyps),
                       here |-> IF adv THEN 0
                                ELSE glog.here + (IF nb THEN 1 ELSE 0),
                       it_here |-> glog.here + (IF nb THEN 1 ELSE 0),
                       followed |-> glog.followed +
                           (IF glog.iters > 0 /\ IsNonBlank(glog.it_out)
                            THEN 1 ELSE 0)]
    /\ UNCHANGED <<self, pc, err, ret, encoder_out_lens, tvars>>

\* line 457
GreedyReturn ==
    /\ pc = "greedy"
    /\ ~(t < encoder_out_lens)
    /\ pc' = "done"
    /\ ret' = <<hyps>>
    /\ UNCHANGED <<self, err, calls, tvars, gvars>>

\* ------------------------------------------------------- greedy_search spec
GreedyCtorArgs ==
    {a \in CtorArgs({3, 4}, {0, 2}, {W(0, 0, 10)}, {"None"}, {"None"}) :
        a.blank = 2 <=> a.vocab_size = 4}

InitGreedy ==
    /\ \E a \in GreedyCtorArgs : CtorAccepts(a) /\ self = CtorFields(a)
    /\ Idle
    /\ GreedyIdle

GreedyStart ==
    pc = "idle" /\ \E batch \in {1, 2}, chunk \in {-1, 0}, L \in 0 .. MaxFrames :
        GreedyCall(batch, chunk, L)

GreedyLoop == pc = "greedy" /\ \E m \in JointArgmax : GreedyIter(m)

NextGreedy == GreedyStart \/ GreedyLoop \/ GreedyReturn

SpecGreedy == InitGreedy /\ [][NextGreedy]_vars

SpecGreedyFair == SpecGreedy /\ WF_vars(GreedyLoop \/ GreedyReturn)

\* ------------------------------------------------- the training-loss spec
Decoders == {"None", "TransformerDecoder", "BiTransformerDecoder"}

TrainWeights ==
    {W(0, 0, 10), W(3, 0, 7), W(0, 3, 7), W(3, 3, 4), W(5, -5, 10), W(3, 3, 3)}

TrainCtorArgs ==
    CtorArgs({3}, {0, 2}, TrainWeights, {"None", "CTC"},
             {"None", "TransformerDecoder"})

InitTrain ==
    /\ \E a \in TrainCtorArgs : CtorAccepts(a) /\ self = CtorFields(a)
    /\ Idle
    /\ GreedyIdle

NextTrain == ForwardStart

SpecTrain == InitTrain /\ [][NextTrain]_vars

\* ------------------------------------ the spec of forward and the rescoring
RescoreCtorArgs ==
    CtorArgs({3}, {0}, {W(0, 0, 10)}, {"None"}, Decoders)
    \cup CtorArgs({4}, {2}, {W(0, 0, 10)}, {"None"}, {"TransformerDecoder"})

Init ==
    /\ \E a \in RescoreCtorArgs : CtorAccepts(a) /\ self = CtorFields(a)
    /\ Idle
    /\ GreedyIdle

Next ==
    \/ ForwardStart
    \/ RescoreStart
    \/ RescoreSearchStep
    \/ RescoreNetworksStep
    \/ RescoreHyp
    \/ RescoreReturn

Spec == Init /\ [][Next]_vars

\* ------------------------------------------------------------------ claims
InForward == op = "forward" /\ pc = "done"

InRescoring == op = "transducer_attention_rescoring"

\* C1: with both optional heads configured and both optional weights
\* non-zero, the 'loss' of the output bundle is ctc_weight*sum(loss_ctc) +
\* attention_decoder_weight*sum(loss_att) + transducer_weight*loss_rnnt
\* (in tenths, as the weights are).
C1_LossIsWeightedSum ==
    /\ InForward
    /\ self.ctc # "None" /\ self.attention_decoder # "None"
    /\ self.ctc_weight # 0 /\ self.attention_decoder_weight # 0
    => ret.loss = self.ctc_weight * SeqSum(ret.loss_ctc)
                  + self.attention_decoder_weight * SeqSum(ret.loss_att)
                  + self.transducer_weight * ret.loss_rnnt

\* The fused score of hypothesis k as the documentation states it, in
\* hundredths: the weights are tenths and rs.attn is kept in tenths.
FusedScore(k) ==
    args.attn_weight * rs.attn[k]
    + One * args.ctc_weight * rs.beam[k].score
    + One * args.transducer_weight * (-rs.loss_td[k])

\* The first hypothesis, in beam order, whose fused score is the maximum.
FirstBest ==
    CHOOSE b \in DOMAIN rs.beam :
        /\ \A k \in DOMAIN rs.beam : FusedScore(k) <= FusedScore(b)
        /\ \A k \in 1 .. b - 1 : FusedScore(k) < FusedScore(b)

\* C2: the rescoring returns the hypothesis whose fused score
\* attn_weight*attn_score + ctc_weight*beam_score + transducer_weight*(-loss_td)
\* is the maximum, the first such in beam order, with that score; the
\* hypotheses are the beam's, in its order, without the leading sentinel.
C2_ReturnsFirstBest ==
    InRescoring /\ pc = "done" =>
        /\ rs.hyps = [k \in DOMAIN rs.beam |-> Tail(rs.beam[k].hyp)]
        /\ rs.best_index = FirstBest
        /\ ret.hyp = Tail(rs.beam[FirstBest].hyp)
        /\ ret.score = Fin(FusedScore(FirstBest))

C2_Witness ==
    /\ InRescoring /\ pc = "done" /\ Len(rs.beam) >= 2
    /\ FirstBest = 1
    /\ FusedScore(2) = FusedScore(1)
    /\ rs.hyps[1] # rs.hyps[2]
    /\ args.attn_weight # 0 /\ args.ctc_weight # 0 /\ args.transducer_weight # 0

\* C6: every accepted Transducer has sos == eos == vocab_size - 1 and a
\* blank id different from sos.
C6_BlankDisjointFromSos ==
    /\ self.sos = self.vocab_size - 1
    /\ self.eos = self.vocab_size - 1
    /\ self.blank # self.sos

\* The padded label batch the tensor for the loss kernel was made from.
LabelsIn == IF op = "forward" THEN fw.text ELSE rs.hyps_pad

\* C7 (as amended): in the tensor handed to the RNN-T loss kernel, by forward
\* and by the rescoring, every position that held ignore_id holds 0 and
\* every other position is unchanged; so no ignore_id is left, and a 0 marks
\* a position that held ignore_id or the label 0.
C7_RemapOnlyPadding ==
    rnnt_text # NoTensor =>
        /\ DOMAIN rnnt_text = DOMAIN LabelsIn
        /\ \A i \in DOMAIN LabelsIn :
              /\ DOMAIN rnnt_text[i] = DOMAIN LabelsIn[i]
              /\ \A j \in DOMAIN LabelsIn[i] :
                    /\ rnnt_text[i][j] # self.ignore_id
                    /\ LabelsIn[i][j] = self.ignore_id => rnnt_text[i][j] = 0
                    /\ LabelsIn[i][j] # self.ignore_id =>
                           rnnt_text[i][j] = LabelsIn[i][j]
                    /\ rnnt_text[i][j] = 0 =>
                           LabelsIn[i][j] \in {self.ignore_id, 0}

\* C7 as stated: no ignore_id is left, a 0 is only where ignore_id was, and
\* all other positions are unchanged.
C7_ZeroOnlyWherePadded ==
    rnnt_text # NoTensor =>
        \A i \in DOMAIN LabelsIn : \A j \in DOMAIN LabelsIn[i] :
            /\ rnnt_text[i][j] # self.ignore_id
            /\ rnnt_text[i][j] = 0 => LabelsIn[i][j] = self.ignore_id
            /\ LabelsIn[i][j] # self.ignore_id => rnnt_text[i][j] = LabelsIn[i][j]

C7_Witness ==
    /\ InRescoring /\ rnnt_text # NoTensor /\ self.blank # self.sos
    /\ \E i \in DOMAIN LabelsIn : \E j \in DOMAIN LabelsIn[i] :
          LabelsIn[i][j] = self.ignore_id /\ rnnt_text[i][j] = 0
    /\ \E i \in DOMAIN LabelsIn : \E j \in DOMAIN LabelsIn[i] :
          LabelsIn[i][j] = 0 /\ rnnt_text[i][j] = 0

\* C8: a rescoring call with reverse_weight > 0 on a model whose attention
\* decoder has no right-to-left decoder ends in an exception before any
\* collaborator (beam search, predictor, joint, attention decoder) is
\* invoked, and returns nothing.
C8_ReverseWithoutRightDecoderFails ==
    /\ InRescoring
    /\ args.reverse_weight > 0
    /\ self.attention_decoder # "BiTransformerDecoder"
    => /\ pc = "error"
       /\ err \in {"AssertionError", "AttributeError"}
       /\ calls = NoCalls
       /\ ret = NoTensor

C8_Witness ==
    /\ InRescoring /\ pc = "error"
    /\ args.reverse_weight > 0
    /\ args.batch_size = 1 /\ args.lengths_batch = 1
    /\ args.decoding_chunk_size # 0
    /\ self.attention_decoder = "TransformerDecoder"
    /\ calls = NoCalls /\ ret = NoTensor

\* C9: a rescoring call with batch size 1, a non-zero chunk size,
\* reverse_weight in (0, 1] and a bidirectional attention decoder passes the
\* precondition checks, and the attention score of every hypothesis is
\* (1 - reverse_weight)*forward_score + reverse_weight*reverse_score.
C9_ReverseRescoringRuns ==
    /\ InRescoring
    /\ args.batch_size = 1 /\ args.lengths_batch = 1
    /\ args.decoding_chunk_size # 0
    /\ args.reverse_weight > 0 /\ args.reverse_weight <= One
    /\ self.attention_decoder = "BiTransformerDecoder"
    => /\ pc = "error" => calls.bs > 0
       /\ \A k \in DOMAIN rs.attn :
             rs.attn[k] =
                 (One - args.reverse_weight) * ForwardScore(rs.seed, k, rs.hyps[k])
                 + args.reverse_weight * ReverseScore(rs.seed, k, rs.hyps[k])

InGreedy == op = "greedy_search" /\ pc \in {"greedy", "done"}

\* The latest loop iteration moved the frame pointer.
Advanced == glog.iters > 0 /\ t = glog.it_t + 1

\* C3: at every point of the greedy_search loop and at return, the
\* hypothesis holds no blank id, and the latest iteration appended a label
\* only if its arg-max was not blank.
C3_NoBlankInHyps ==
    InGreedy =>
        /\ \A k \in 1 .. Len(hyps) : hyps[k] # self.blank
        /\ pc = "done" => \A k \in 1 .. Len(ret[1]) : ret[1][k] # self.blank
        /\ glog.iters > 0 =>
               Len(hyps) = glog.it_len + (IF glog.it_out # self.blank THEN 1 ELSE 0)

C3_Witness ==
    /\ InGreedy /\ pc = "done" /\ self.blank # 0
    /\ Len(hyps) >= 2 /\ glog.iters > Len(hyps)

\* C4: when every decision at a frame is non-blank, the frame pointer moves
\* on after exactly 100 labels were appended at that frame, the per-frame
\* counter is 0 when the next frame starts, and no frame contributes more
\* than 100 labels.
C4_CapAtExactly100 ==
    InGreedy /\ glog.iters > 0 =>
        /\ glog.it_here <= 100
        /\ glog.here < 100
        /\ glog.it_out # self.blank => (Advanced <=> glog.it_here = 100)
        /\ Advanced => per_frame_noblk = 0
        /\ ~Advanced => t = glog.it_t

C4_Witness ==
    /\ InGreedy /\ pc = "greedy" /\ t < encoder_out_lens
    /\ Advanced /\ glog.it_out # self.blank /\ glog.it_here = 100
    /\ per_frame_noblk = 0

\* C5: the greedy_search loop terminates whatever the joint network prefers;
\* at termination the frame pointer equals the encoder length and was
\* advanced exactly that many times, each time by 1 and only in an iteration
\* whose arg-max was blank or in which the cap was reached; a non-blank
\* iteration below the cap leaves the frame pointer where it was.
C5_TerminatesAtL ==
    /\ (pc = "greedy") ~> (pc = "done")
    /\ [](InGreedy /\ pc = "done" =>
             t = encoder_out_lens /\ glog.advances = encoder_out_lens)
    /\ [][pc = "greedy" /\ pc' = "greedy" =>
             /\ t' = t \/ t' = t + 1
             /\ t' = t + 1 <=> (glog'.it_out = self.blank \/ glog'.it_here >= 100)
             /\ glog'.advances = glog.advances + (t' - t)]_vars

C5_Witness ==
    /\ InGreedy /\ pc = "done" /\ encoder_out_lens >= 2
    /\ Len(hyps) = 100 * encoder_out_lens

\* C10: the predictor runs in an iteration exactly when that iteration is
\* the first or the one before it emitted a label, and the number of
\* predictor runs of a call is 1 plus the number of emissions followed by
\* another iteration.
C10_PredictorOnlyAfterEmission ==
    InGreedy /\ glog.iters > 0 =>
        /\ glog.it_pred <=> (glog.iters = 1 \/ glog.it_prev # self.blank)
        /\ calls.predictor = 1 + glog.followed

\* C11: whenever the joint network is evaluated, the predictor output it
\* receives comes from a predictor step whose input is the most recently
\* emitted label (blank if none yet) and whose recurrent state has consumed
\* every earlier emitted label, in order; also right after a frame advance
\* forced by the cap, so that no emitted label is missing from it.
C11_JointSeesEveryEmittedLabel ==
    InGreedy /\ glog.iters > 0 =>
        pred_out_step = <<self.blank>> \o SubSeq(hyps, 1, glog.it_len)

====
